---- MODULE Spec2Model ----
(***************************************************************************)
(* Contacts-management backend: user directory, registration, login,       *)
(* e-mail confirmation, password reset, bearer resolution through a        *)
(* read-through cache, and the contact repository scoped by owner.         *)
(*                                                                         *)
(* Every request handler is an action (or, where it suspends on I/O and    *)
(* the interleaving matters, one action per await).  The variable `last`   *)
(* holds the outcome of the step taken most recently: its inputs, the      *)
(* HTTP status and the value returned.                                     *)
(***************************************************************************)
EXTENDS Integers, Sequences, FiniteSets, TLC

VARIABLES
    users,      \* Users table: a set of user rows
    rg,         \* register_user requests in flight, one per worker
    outbox,     \* mails handed to the background mailer
    bearer,     \* access tokens handed out by login_user
    cache,      \* Redis: cache key -> entry or NoEntry
    redisUp,    \* whether the Redis backend answers
    rs,         \* get_current_user requests in flight, one per worker
    contacts,   \* Contacts table: a set of contact rows
    contactSeq, \* the last id the Contacts table's sequence gave out
    now,        \* wall clock, seconds
    mutAt,      \* history: username -> time its row was last written, or Never
    stale,      \* history: the snapshots (cache keys, requests) taken before a later write
    walk,       \* a client paging through get_contacts: its next offset and the rows it has seen
    last        \* outcome of the step taken most recently

vars == <<users, rg, outbox, bearer, cache, redisUp, rs, contacts, contactSeq, now, mutAt, stale, walk, last>>

\* Python's None where an object (a row, a token, a cache entry) is expected
None == [none |-> TRUE]

\* Python's None in a string column (avatar) and in the write-time history
NoAvatar == "null"
Never == -1

\* ------------------------------------------------------------------ bounds

MaxHours == 1         \* the clock runs over this many cache lifetimes
Latency == 1          \* seconds a request may take between two of its awaits
MaxMail == 2          \* mails kept in the outbox
MaxBearer == 1        \* access tokens handed out
MaxContacts == 3      \* contact rows ever created

\* ------------------------------------------------------------------ inputs

\* A username is free text: one of them is spelled like an e-mail address.
Usernames == {"alice", "b@x.io"}
Emails == {"a@x.io", "b@x.io"}
Passwords == {"pw1", "pw2"}
Workers == {"w1", "w2"}

\* ------------------------------------------------- database.models (schema)

ROLE_USER == "USER"
ROLE_ADMIN == "ADMIN"
UserRoles == {ROLE_USER, ROLE_ADMIN}

\* UserRole(value): the enum member of a string value
UserRole(s) == IF s = "admin" THEN ROLE_ADMIN ELSE ROLE_USER

\* member.value: the string an enum member serializes to
RoleValue(r) == IF r = ROLE_ADMIN THEN "admin" ELSE "user"

\* ------------------------------------------------------------ services.hash

GetPasswordHash(p) == <<"bcrypt", p>>

VerifyPassword(p, h) == h = GetPasswordHash(p)

\* ------------------------------------------------------------- conf.config

JWT_SECRET == "secret"
JWT_EXPIRATION_SECONDS == 3600
EMAIL_TOKEN_SECONDS == 604800    \* timedelta(days=7)
RESET_TOKEN_SECONDS == 3600      \* timedelta(hours=1)
CACHE_EX_SECONDS == 3600

\* ------------------------------------------------------------ services.auth

\* A token string that is no JWT at all
Malformed == [junk |-> TRUE]

\* jwt.encode: the claims, signed with a key
JwtEncode(payload, key) == [payload |-> payload, key |-> key]

\* create_access_token(data={"sub": sub}) at time t
CreateAccessToken(sub, t) ==
    JwtEncode([sub |-> sub, exp |-> t + JWT_EXPIRATION_SECONDS], JWT_SECRET)

\* create_email_token({"sub": email}) at time t
CreateEmailToken(email, t) ==
    JwtEncode([sub |-> email, iat |-> t, exp |-> t + EMAIL_TOKEN_SECONDS], JWT_SECRET)

\* create_reset_token giving the token the lifetime of an e-mail token
CreateResetTokenWeek(email, t) ==
    JwtEncode([sub |-> email, exp |-> t + EMAIL_TOKEN_SECONDS], JWT_SECRET)

\* create_reset_token(email) at time t
CreateResetToken(email, t) ==
    JwtEncode([sub |-> email, exp |-> t + RESET_TOKEN_SECONDS], JWT_SECRET)

\* jwt.decode that does not look at exp
JwtErrorNoExpiry(token, t) ==
    \/ token = Malformed
    \/ token.key # JWT_SECRET

\* jwt.decode raises JWTError: not a JWT, signature mismatch, or exp in the past
JwtError(token, t) ==
    \/ token = Malformed
    \/ token.key # JWT_SECRET
    \/ token.payload.exp < t

\* jwt.decode(...)["sub"] of a token that decodes
Sub(token) == token.payload.sub

\* get_email_from_token reading the claims without verifying the token
GetEmailFromTokenUnverified(token, t) ==
    IF token = Malformed
    THEN [raised |-> TRUE, status |-> 422, email |-> ""]
    ELSE [raised |-> FALSE, status |-> 200, email |-> Sub(token)]

\* get_email_from_token at time t: payload["sub"], or JWTError turned into
\* HTTPException(422)
GetEmailFromToken(token, t) ==
    IF JwtError(token, t)
    THEN [raised |-> TRUE, status |-> 422, email |-> ""]
    ELSE [raised |-> FALSE, status |-> 200, email |-> Sub(token)]

\* decode_reset_token at time t: jwt.decode raises, or payload.get("sub")
DecodeResetToken(token, t) ==
    IF JwtError(token, t)
    THEN [raised |-> TRUE, email |-> ""]
    ELSE [raised |-> FALSE, email |-> Sub(token)]

\* ------------------------------------------------------ repository.users

GetUserByUsername(table, username) ==
    IF \E u \in table : u.username = username
    THEN CHOOSE u \in table : u.username = username
    ELSE None

GetUserByEmail(table, email) ==
    IF \E u \in table : u.email = email
    THEN CHOOSE u \in table : u.email = email
    ELSE None

\* the id the Users table gives the next row
NextUserId(table) ==
    IF table = {} THEN 1
    ELSE 1 + (CHOOSE i \in {u.id : u \in table} : \A u \in table : u.id <= i)

\* uniqueness constraints of the Users table on username and on email
UniqueViolation(table, row) ==
    \E u \in table : u.username = row.username \/ u.email = row.email

\* the row create_user builds from UserCreate (password already hashed)
NewUserRow(table, body, avatar) ==
    [id |-> NextUserId(table),
     username |-> body.username,
     email |-> body.email,
     hashed_password |-> body.password,
     role |-> IF body.role \in UserRoles THEN body.role ELSE UserRole(body.role),
     confirmed |-> FALSE,
     avatar |-> avatar]

\* confirmed_email setting the flag without the filter on the e-mail
RepoConfirmedEmailAll(table, email) ==
    {[u EXCEPT !.confirmed = TRUE] : u \in table}

\* UserRepository.confirmed_email: user.confirmed = True; commit
RepoConfirmedEmail(table, email) ==
    {IF u.email = email THEN [u EXCEPT !.confirmed = TRUE] ELSE u : u \in table}

\* UserRepository.update_avatar_url: user.avatar = url; commit; refresh
RepoUpdateAvatarUrl(table, email, url) ==
    {IF u.email = email THEN [u EXCEPT !.avatar = url] ELSE u : u \in table}

\* update_password with the WHERE clause left out
RepoUpdatePasswordAll(table, email, hashed) ==
    {[u EXCEPT !.hashed_password = hashed] : u \in table}

\* UserRepository.update_password: result.scalar_one() raises NoResultFound
\* when the UPDATE ... RETURNING matched no row
NoResultFound(table, email) == \A u \in table : u.email # email

\* UserRepository.update_password: UPDATE users SET hashed_password WHERE email
RepoUpdatePassword(table, email, hashed) ==
    {IF u.email = email THEN [u EXCEPT !.hashed_password = hashed] ELSE u : u \in table}

\* history: the rows that differ between two tables were written at time t
Touch(m, old, new, t) ==
    [n \in Usernames |->
        IF GetUserByUsername(old, n) # None /\ GetUserByUsername(old, n) # GetUserByUsername(new, n)
        THEN t ELSE m[n]]

\* the usernames whose row differs between two tables
Written(old, new) ==
    {n \in Usernames : GetUserByUsername(old, n) # None
                        /\ GetUserByUsername(old, n) # GetUserByUsername(new, n)}

\* history: the cached and the in-flight snapshots of the rows just written
\* now predate a write
Taint(st, old, new) ==
    st \cup {<<"cache", n>> : n \in {k \in Written(old, new) : cache[k] # None}}
       \cup {<<"request", w>> : w \in {x \in DOMAIN rs : rs[x].pc = "read"
                                                          /\ rs[x].sub \in Written(old, new)}}

\* a cache key that holds nothing
NoEntry == None

\* ------------------------------------------------------------ requests

Idle == [pc |-> "idle"]

\* UserCreate bodies a client may post: the third repeats the first one's
\* username and the second one's e-mail
UserCreates ==
    {[username |-> "alice", email |-> "a@x.io", password |-> "pw1", role |-> "user"],
     [username |-> "b@x.io", email |-> "b@x.io", password |-> "pw1", role |-> "admin"],
     [username |-> "alice", email |-> "b@x.io", password |-> "pw2", role |-> ROLE_USER]}

\* what services.users hands create_user as avatar: a Gravatar URL, or None
Avatars == {NoAvatar, "gravatar.png"}

\* a mail the background mailer was handed
Mail(to, template, token) == [to |-> to, template |-> template, token |-> token]

\* the outbox after enqueueing one more mail
Enqueue(box, mail) == box \cup {mail}

\* room left for a mail (the model keeps at most MaxMail of them)
MailRoom(mail) == mail \in outbox \/ Cardinality(outbox) < MaxMail

\* tokens that were never signed with the server's secret
Forged == {Malformed,
           JwtEncode([sub |-> "a@x.io", exp |-> now + JWT_EXPIRATION_SECONDS], "guess")}

\* every token a client can present: the ones handed out, and forged ones
Presentable == bearer \cup {m.token : m \in outbox} \cup Forged

\* ------------------------------------------------------------ api.auth

\* register_user without the e-mail pre-check
RegisterUserCheckEmailSkipped(w, body) ==
    /\ rg[w] = Idle
    /\ LET dup == GetUserByEmail(users, body.email) # None
                  \/ GetUserByUsername(users, body.username) # None
       IN /\ rg' = [rg EXCEPT ![w] = [pc |-> "emailChecked", body |-> body, dup |-> dup]]
          /\ last' = [op |-> "register", worker |-> w, body |-> body, dup |-> dup,
                      raced |-> FALSE, status |-> 0, user |-> None]
    /\ UNCHANGED <<walk, users, outbox, bearer, cache, redisUp, rs, contacts, contactSeq, now, mutAt, stale>>

\* POST /auth/register, first await: get_user_by_email
RegisterUserCheckEmail(w, body) ==
    /\ rg[w] = Idle
    /\ LET dup == GetUserByEmail(users, body.email) # None
                  \/ GetUserByUsername(users, body.username) # None
       IN IF GetUserByEmail(users, body.email) # None
          THEN /\ rg' = rg
               /\ last' = [op |-> "register", worker |-> w, body |-> body, dup |-> dup,
                           raced |-> FALSE, status |-> 409, user |-> None]
          ELSE /\ rg' = [rg EXCEPT ![w] = [pc |-> "emailChecked", body |-> body, dup |-> dup]]
               /\ last' = [op |-> "register", worker |-> w, body |-> body, dup |-> dup,
                           raced |-> FALSE, status |-> 0, user |-> None]
    /\ UNCHANGED <<walk, users, outbox, bearer, cache, redisUp, rs, contacts, contactSeq, now, mutAt, stale>>

\* POST /auth/register, second await: get_user_by_username
RegisterUserCheckUsername(w) ==
    /\ rg[w].pc = "emailChecked"
    /\ LET body == rg[w].body
       IN IF GetUserByUsername(users, body.username) # None
          THEN /\ rg' = [rg EXCEPT ![w] = Idle]
               /\ last' = [op |-> "register", worker |-> w, body |-> body, dup |-> rg[w].dup,
                           raced |-> FALSE, status |-> 409, user |-> None]
          ELSE /\ rg' = [rg EXCEPT ![w].pc = "usernameChecked"]
               /\ last' = [op |-> "register", worker |-> w, body |-> body, dup |-> rg[w].dup,
                           raced |-> FALSE, status |-> 0, user |-> None]
    /\ UNCHANGED <<walk, users, outbox, bearer, cache, redisUp, rs, contacts, contactSeq, now, mutAt, stale>>

\* the status register_user answers when the insert's commit raises IntegrityError
RegisterIntegrityErrorStatus == 500

\* POST /auth/register, third await: hash the password, create_user (commit),
\* then hand send_email to the background tasks
RegisterUserCreate(w, avatar) ==
    /\ rg[w].pc = "usernameChecked"
    /\ LET body == [rg[w].body EXCEPT !.password = GetPasswordHash(@)]
           row == NewUserRow(users, body, avatar)
           mail == Mail(row.email, "verify_email", CreateEmailToken(row.email, now))
       IN IF UniqueViolation(users, row)
          THEN /\ users' = users
               /\ outbox' = outbox
               /\ last' = [op |-> "register", worker |-> w, body |-> rg[w].body, dup |-> rg[w].dup,
                           raced |-> TRUE, status |-> RegisterIntegrityErrorStatus, user |-> None]
          ELSE /\ MailRoom(mail)
               /\ users' = users \cup {row}
               /\ outbox' = Enqueue(outbox, mail)
               /\ last' = [op |-> "register", worker |-> w, body |-> rg[w].body, dup |-> rg[w].dup,
                           raced |-> FALSE, status |-> 201, user |-> row]
    /\ rg' = [rg EXCEPT ![w] = Idle]
    /\ UNCHANGED <<walk, bearer, cache, redisUp, rs, contacts, contactSeq, now, mutAt, stale>>

\* login_user with the confirmed check left out
NotConfirmedSkipped(user) == FALSE

\* login_user: `if not user.confirmed`
NotConfirmed(user) == ~user.confirmed

\* login_user signing the e-mail address as the subject
LoginSubjectEmail(user) == user.email

\* login_user: data={"sub": user.username}
LoginSubject(user) == user.username

\* login_user answering an unknown username with a message of its own
LoginUserTelling(username, password) ==
    LET user == GetUserByUsername(users, username)
        token == CreateAccessToken(LoginSubject(user), now)
    IN /\ IF user = None
          THEN /\ bearer' = bearer
               /\ last' = [op |-> "login", username |-> username, password |-> password,
                           status |-> 401, detail |-> "no such user", token |-> None]
          ELSE IF ~VerifyPassword(password, user.hashed_password)
          THEN /\ bearer' = bearer
               /\ last' = [op |-> "login", username |-> username, password |-> password,
                           status |-> 401, detail |-> "bad credentials", token |-> None]
          ELSE IF NotConfirmed(user)
          THEN /\ bearer' = bearer
               /\ last' = [op |-> "login", username |-> username, password |-> password,
                           status |-> 401, detail |-> "not confirmed", token |-> None]
          ELSE /\ token \in bearer \/ Cardinality(bearer) < MaxBearer
               /\ bearer' = bearer \cup {token}
               /\ last' = [op |-> "login", username |-> username, password |-> password,
                           status |-> 200, detail |-> "bearer", token |-> token]
       /\ UNCHANGED <<walk, users, rg, outbox, cache, redisUp, rs, contacts, contactSeq, now, mutAt, stale>>

\* POST /auth/login
LoginUser(username, password) ==
    LET user == GetUserByUsername(users, username)
        token == CreateAccessToken(LoginSubject(user), now)
    IN /\ IF user = None \/ ~VerifyPassword(password, user.hashed_password)
          THEN /\ bearer' = bearer
               /\ last' = [op |-> "login", username |-> username, password |-> password,
                           status |-> 401, detail |-> "bad credentials", token |-> None]
          ELSE IF NotConfirmed(user)
          THEN /\ bearer' = bearer
               /\ last' = [op |-> "login", username |-> username, password |-> password,
                           status |-> 401, detail |-> "not confirmed", token |-> None]
          ELSE /\ token \in bearer \/ Cardinality(bearer) < MaxBearer
               /\ bearer' = bearer \cup {token}
               /\ last' = [op |-> "login", username |-> username, password |-> password,
                           status |-> 200, detail |-> "bearer", token |-> token]
       /\ UNCHANGED <<walk, users, rg, outbox, cache, redisUp, rs, contacts, contactSeq, now, mutAt, stale>>

\* GET /auth/confirmed_email/{token}
ConfirmedEmail(token) ==
    /\ LET decoded == GetEmailFromToken(token, now)
           user == GetUserByEmail(users, decoded.email)
       IN IF decoded.raised
          THEN /\ users' = users
               /\ last' = [op |-> "confirmed_email", token |-> token, status |-> decoded.status]
          ELSE IF user = None
          THEN /\ users' = users
               /\ last' = [op |-> "confirmed_email", token |-> token, status |-> 400]
          ELSE IF user.confirmed
          THEN /\ users' = users
               /\ last' = [op |-> "confirmed_email", token |-> token, status |-> 200]
          ELSE /\ users' = RepoConfirmedEmail(users, decoded.email)
               /\ last' = [op |-> "confirmed_email", token |-> token, status |-> 200]
    /\ mutAt' = Touch(mutAt, users, users', now)
    /\ stale' = Taint(stale, users, users')
    /\ UNCHANGED <<walk, rg, outbox, bearer, cache, redisUp, rs, contacts, contactSeq, now>>

\* POST /auth/request_email
RequestEmail(email) ==
    LET user == GetUserByEmail(users, email)
        mail == Mail(email, "verify_email", CreateEmailToken(email, now))
    IN /\ IF user = None
          THEN /\ outbox' = outbox
               /\ last' = [op |-> "request_email", email |-> email, status |-> 500]
          ELSE IF user.confirmed
          THEN /\ outbox' = outbox
               /\ last' = [op |-> "request_email", email |-> email, status |-> 200]
          ELSE /\ MailRoom(mail)
               /\ outbox' = Enqueue(outbox, mail)
               /\ last' = [op |-> "request_email", email |-> email, status |-> 200]
       /\ UNCHANGED <<walk, users, rg, bearer, cache, redisUp, rs, contacts, contactSeq, now, mutAt, stale>>

\* POST /auth/send-reset-password-token; send_reset_password_email builds the
\* link's token with create_email_token
SendResetPasswordToken(email) ==
    LET user == GetUserByEmail(users, email)
        mail == Mail(email, "reset_password", CreateEmailToken(email, now))
    IN /\ IF user = None
          THEN /\ outbox' = outbox
               /\ last' = [op |-> "send_reset_password_token", email |-> email, status |-> 404]
          ELSE /\ MailRoom(mail)
               /\ outbox' = Enqueue(outbox, mail)
               /\ last' = [op |-> "send_reset_password_token", email |-> email, status |-> 200]
       /\ UNCHANGED <<walk, users, rg, bearer, cache, redisUp, rs, contacts, contactSeq, now, mutAt, stale>>

\* reset_password storing new_password unhashed, which no verify accepts
ResetPasswordPlain(token, new_password) ==
    /\ IF JwtError(token, now)
       THEN /\ users' = users
            /\ last' = [op |-> "reset_password", token |-> token,
                        new_password |-> new_password, error |-> "JWTError", status |-> 400]
       ELSE IF NoResultFound(users, Sub(token))
       THEN /\ users' = users
            /\ last' = [op |-> "reset_password", token |-> token,
                        new_password |-> new_password, error |-> "NoResultFound",
                        status |-> 500]
       ELSE /\ users' = RepoUpdatePassword(users, Sub(token), <<"plain", new_password>>)
            /\ last' = [op |-> "reset_password", token |-> token,
                        new_password |-> new_password, error |-> "", status |-> 200]
    /\ mutAt' = Touch(mutAt, users, users', now)
    /\ stale' = Taint(stale, users, users')
    /\ UNCHANGED <<walk, rg, outbox, bearer, cache, redisUp, rs, contacts, contactSeq, now>>

\* POST /auth/reset-password
ResetPassword(token, new_password) ==
    /\ IF JwtError(token, now)
       THEN /\ users' = users
            /\ last' = [op |-> "reset_password", token |-> token,
                        new_password |-> new_password, error |-> "JWTError", status |-> 400]
       ELSE IF NoResultFound(users, Sub(token))
       THEN /\ users' = users
            /\ last' = [op |-> "reset_password", token |-> token,
                        new_password |-> new_password, error |-> "NoResultFound",
                        status |-> 500]
       ELSE /\ users' = RepoUpdatePassword(users, Sub(token), GetPasswordHash(new_password))
            /\ last' = [op |-> "reset_password", token |-> token,
                        new_password |-> new_password, error |-> "", status |-> 200]
    /\ mutAt' = Touch(mutAt, users, users', now)
    /\ stale' = Taint(stale, users, users')
    /\ UNCHANGED <<walk, rg, outbox, bearer, cache, redisUp, rs, contacts, contactSeq, now>>

\* GET /auth/reset-password?token=
ResetPasswordForm(token) ==
    /\ LET decoded == DecodeResetToken(token, now)
       IN IF decoded.raised
          THEN last' = [op |-> "reset_password_form", token |-> token,
                        email |-> decoded.email, status |-> 400]
          ELSE last' = [op |-> "reset_password_form", token |-> token,
                        email |-> decoded.email, status |-> 200]
    /\ UNCHANGED <<walk, users, rg, outbox, bearer, cache, redisUp, rs, contacts, contactSeq, now, mutAt, stale>>

\* ------------------------------------------------------ repository.contacts

ContactFields == {"first_name", "last_name", "email", "phone", "birthday", "extra_info"}

\* ContactCreate bodies a client may post
ContactCreates ==
    {[first_name |-> "Alice", last_name |-> "Smith", email |-> "alice@c.io",
      phone |-> "111", birthday |-> <<1990, 1, 2>>, extra_info |-> "friend"],
     [first_name |-> "Alicia", last_name |-> "Jones", email |-> "bob@c.io",
      phone |-> "222", birthday |-> <<2000, 12, 30>>, extra_info |-> ""]}

\* ContactUpdate payloads: the fields the client set (exclude_unset)
ContactUpdates ==
    {[first_name |-> "Bob"],
     [email |-> "alice@c.io", phone |-> "333"]}

\* the Contacts table's constraint: e-mail unique among the other rows
IntegrityError(table, row) ==
    \E c \in table : c.id # row.id /\ c.email = row.email

\* a select on Contact.id alone
GetContactRowUnscoped(table, contact_id, user) ==
    IF \E c \in table : c.id = contact_id
    THEN CHOOSE c \in table : c.id = contact_id
    ELSE None

\* select(Contact).where(Contact.id == contact_id, Contact.user_id == user.id)
GetContactRow(table, contact_id, user) ==
    IF \E c \in table : c.id = contact_id /\ c.user_id = user.id
    THEN CHOOSE c \in table : c.id = contact_id /\ c.user_id = user.id
    ELSE None

\* Contact(**contact_data.model_dump(exclude_unset=True), user_id=user.id)
NewContactRow(body, user, id) ==
    [id |-> id, user_id |-> user.id,
     first_name |-> body.first_name, last_name |-> body.last_name, email |-> body.email,
     phone |-> body.phone, birthday |-> body.birthday, extra_info |-> body.extra_info]

\* update_contact dumping the payload without exclude_unset: the text fields
\* the client left out arrive as None and are written too
SetAttrsUnset(row, data) ==
    [f \in DOMAIN row |->
        IF f \in DOMAIN data THEN data[f]
        ELSE IF f \in {"first_name", "last_name", "email", "phone", "extra_info"} THEN "null"
        ELSE row[f]]

\* for key, value in contact_data.dict(exclude_unset=True).items(): setattr(...)
SetAttrs(row, data) ==
    [f \in DOMAIN row |-> IF f \in DOMAIN data THEN data[f] ELSE row[f]]

\* ContactRepository.get_contact
GetContact(contact_id, user) ==
    /\ last' = [op |-> "get_contact", user |-> user, id |-> contact_id,
                result |-> GetContactRow(contacts, contact_id, user)]
    /\ UNCHANGED <<walk, users, rg, outbox, bearer, cache, redisUp, rs, contacts, contactSeq, now, mutAt, stale>>

\* ContactRepository.create_contact
CreateContact(body, user) ==
    /\ contactSeq < MaxContacts
    /\ contactSeq' = contactSeq + 1
    /\ LET row == NewContactRow(body, user, contactSeq + 1)
       IN IF IntegrityError(contacts, row)
          THEN /\ contacts' = contacts
               /\ last' = [op |-> "create_contact", user |-> user, id |-> row.id,
                           data |-> body, failed |-> TRUE, result |-> None]
          ELSE /\ contacts' = contacts \cup {row}
               /\ last' = [op |-> "create_contact", user |-> user, id |-> row.id,
                           data |-> body, failed |-> FALSE, result |-> row]
    /\ UNCHANGED <<walk, users, rg, outbox, bearer, cache, redisUp, rs, now, mutAt, stale>>

\* update_contact whose except branch returns None without db.rollback()
\* while the session goes on to write the pending row
UpdateContactNoRollback(contact_id, data, user) ==
    /\ LET contact == GetContactRow(contacts, contact_id, user)
           row == SetAttrs(contact, data)
       IN IF contact = None
          THEN /\ contacts' = contacts
               /\ last' = [op |-> "update_contact", user |-> user, id |-> contact_id,
                           data |-> data, failed |-> FALSE, result |-> None]
          ELSE IF IntegrityError(contacts, row)
          THEN /\ contacts' = (contacts \ {contact}) \cup {row}
               /\ last' = [op |-> "update_contact", user |-> user, id |-> contact_id,
                           data |-> data, failed |-> TRUE, result |-> None]
          ELSE /\ contacts' = (contacts \ {contact}) \cup {row}
               /\ last' = [op |-> "update_contact", user |-> user, id |-> contact_id,
                           data |-> data, failed |-> FALSE, result |-> row]
    /\ UNCHANGED <<walk, users, rg, outbox, bearer, cache, redisUp, rs, contactSeq, now, mutAt, stale>>

\* ContactRepository.update_contact
UpdateContact(contact_id, data, user) ==
    /\ LET contact == GetContactRow(contacts, contact_id, user)
           row == SetAttrs(contact, data)
       IN IF contact = None
          THEN /\ contacts' = contacts
               /\ last' = [op |-> "update_contact", user |-> user, id |-> contact_id,
                           data |-> data, failed |-> FALSE, result |-> None]
          ELSE IF IntegrityError(contacts, row)
          THEN /\ contacts' = contacts
               /\ last' = [op |-> "update_contact", user |-> user, id |-> contact_id,
                           data |-> data, failed |-> TRUE, result |-> None]
          ELSE /\ contacts' = (contacts \ {contact}) \cup {row}
               /\ last' = [op |-> "update_contact", user |-> user, id |-> contact_id,
                           data |-> data, failed |-> FALSE, result |-> row]
    /\ UNCHANGED <<walk, users, rg, outbox, bearer, cache, redisUp, rs, contactSeq, now, mutAt, stale>>

\* delete_contact looking the row up by id alone
DeleteContactUnscoped(contact_id, user) ==
    /\ LET contact == GetContactRowUnscoped(contacts, contact_id, user)
       IN /\ contacts' = contacts \ {contact}
          /\ last' = [op |-> "delete_contact", user |-> user, id |-> contact_id,
                      result |-> contact]
    /\ UNCHANGED <<walk, users, rg, outbox, bearer, cache, redisUp, rs, contactSeq, now, mutAt, stale>>

\* delete_contact returning the row without deleting it
DeleteContactKeeps(contact_id, user) ==
    /\ LET contact == GetContactRow(contacts, contact_id, user)
       IN /\ contacts' = contacts
          /\ last' = [op |-> "delete_contact", user |-> user, id |-> contact_id,
                      result |-> contact]
    /\ UNCHANGED <<users, rg, outbox, bearer, cache, redisUp, rs, contactSeq, now, mutAt, stale, walk>>

\* ContactRepository.delete_contact
DeleteContact(contact_id, user) ==
    /\ LET contact == GetContactRow(contacts, contact_id, user)
       IN /\ contacts' = contacts \ {contact}
          /\ last' = [op |-> "delete_contact", user |-> user, id |-> contact_id,
                      result |-> contact]
    /\ UNCHANGED <<walk, users, rg, outbox, bearer, cache, redisUp, rs, contactSeq, now, mutAt, stale>>

\* the characters of the strings that occur in contact fields and in filters
Text(s) ==
    CASE s = "" -> <<>>
      [] s = "Alice" -> <<"A", "l", "i", "c", "e">>
      [] s = "Alicia" -> <<"A", "l", "i", "c", "i", "a">>
      [] s = "Bob" -> <<"B", "o", "b">>
      [] s = "Smith" -> <<"S", "m", "i", "t", "h">>
      [] s = "Jones" -> <<"J", "o", "n", "e", "s">>
      [] s = "alice@c.io" -> <<"a", "l", "i", "c", "e", "@", "c", ".", "i", "o">>
      [] s = "bob@c.io" -> <<"b", "o", "b", "@", "c", ".", "i", "o">>
      [] s = "ali" -> <<"a", "l", "i">>
      [] s = "LI" -> <<"L", "I">>
      [] s = "l_c" -> <<"l", "_", "c">>
      [] s = "s" -> <<"s">>
      [] s = "B" -> <<"B">>
      [] s = "c.io" -> <<"c", ".", "i", "o">>

\* lower(c), as ILIKE folds case
Lower(c) ==
    CASE c = "A" -> "a" [] c = "B" -> "b" [] c = "I" -> "i" [] c = "J" -> "j"
      [] c = "L" -> "l" [] c = "S" -> "s" [] OTHER -> c

\* f"%{x}%": the LIKE pattern search_contacts builds from a filter
Pattern(x) == <<"%">> \o Text(x) \o <<"%">>

\* column.ilike(pattern): % stands for any run of characters, _ for any one
\* character, every other character for itself in either case
RECURSIVE ILike(_, _)
ILike(s, pat) ==
    IF pat = <<>> THEN s = <<>>
    ELSE IF Head(pat) = "%"
    THEN ILike(s, Tail(pat)) \/ (s # <<>> /\ ILike(Tail(s), pat))
    ELSE IF Head(pat) = "_"
    THEN s # <<>> /\ ILike(Tail(s), Tail(pat))
    ELSE s # <<>> /\ Lower(Head(s)) = Lower(Head(pat)) /\ ILike(Tail(s), Tail(pat))

\* `if x: stmt = stmt.filter(column.ilike(f"%{x}%"))`: the rows a filter lets
\* through; None and "" are both falsy and written "" here
Filter(value, x) == x = "" \/ ILike(Text(value), Pattern(x))

\* search_contacts without the filter on the owner
SearchRowsUnscoped(table, user, first_name, last_name, email) ==
    {c \in table : /\ Filter(c.first_name, first_name)
                   /\ Filter(c.last_name, last_name)
                   /\ Filter(c.email, email)}

\* the SELECT of search_contacts
SearchRows(table, user, first_name, last_name, email) ==
    {c \in table : /\ c.user_id = user.id
                   /\ Filter(c.first_name, first_name)
                   /\ Filter(c.last_name, last_name)
                   /\ Filter(c.email, email)}

\* ContactRepository.search_contacts
SearchContacts(user, first_name, last_name, email) ==
    /\ last' = [op |-> "search_contacts", user |-> user, first_name |-> first_name,
                last_name |-> last_name, email |-> email,
                result |-> SearchRows(contacts, user, first_name, last_name, email)]
    /\ UNCHANGED <<walk, users, rg, outbox, bearer, cache, redisUp, rs, contacts, contactSeq, now, mutAt, stale>>

\* the calendar behind datetime + timedelta: dates are <<year, month, day>>
IsLeap(y) == (y % 4 = 0 /\ y % 100 # 0) \/ y % 400 = 0

DaysInMonth(y, m) ==
    CASE m = 2 -> IF IsLeap(y) THEN 29 ELSE 28
      [] m \in {4, 6, 9, 11} -> 30
      [] OTHER -> 31

NextDay(d) ==
    IF d[3] < DaysInMonth(d[1], d[2]) THEN <<d[1], d[2], d[3] + 1>>
    ELSE IF d[2] < 12 THEN <<d[1], d[2] + 1, 1>>
    ELSE <<d[1] + 1, 1, 1>>

\* date + timedelta(days=n)
RECURSIVE AddDays(_, _)
AddDays(d, n) == IF n = 0 THEN d ELSE AddDays(NextDay(d), n - 1)

\* timedelta(days=7) of get_contacts_birthday_soon
BIRTHDAY_DAYS == 7

\* get_contacts_birthday_soon looking at today's month only
BirthdaySoonRowsThisMonth(table, user, today) ==
    {c \in table : /\ c.user_id = user.id
                   /\ c.birthday[2] = today[2]
                   /\ c.birthday[3] >= today[3]}

\* the SELECT of get_contacts_birthday_soon: month and day of the birthday
\* compared with those of today and of the day seven days later
BirthdaySoonRows(table, user, today) ==
    LET seven_days_later == AddDays(today, BIRTHDAY_DAYS)
    IN {c \in table :
           /\ c.user_id = user.id
           /\ \/ c.birthday[2] = today[2] /\ c.birthday[3] >= today[3]
              \/ c.birthday[2] = seven_days_later[2] /\ c.birthday[3] <= seven_days_later[3]}

\* ContactRepository.get_contacts_birthday_soon, datetime.today() reading today
GetContactsBirthdaySoon(user, today) ==
    /\ last' = [op |-> "get_contacts_birthday_soon", user |-> user, today |-> today,
                result |-> BirthdaySoonRows(contacts, user, today)]
    /\ UNCHANGED <<walk, users, rg, outbox, bearer, cache, redisUp, rs, contacts, contactSeq, now, mutAt, stale>>

\* the orders in which a SELECT without ORDER BY may return a set of rows
Orders(rows) ==
    {f \in [1 .. Cardinality(rows) -> rows] :
        \A i, j \in 1 .. Cardinality(rows) : i # j => f[i] # f[j]}

\* OFFSET skip LIMIT limit of the rows in the order they come
Page(order, skip, limit) ==
    SubSeq(order, skip + 1, IF skip + limit < Len(order) THEN skip + limit ELSE Len(order))

\* no client is paging
NoWalk == [active |-> FALSE]

\* the paging client after a call: offset 0 starts a traversal, the offset it
\* was waiting for continues it, a page shorter than limit ends it
Walked(w, table, user, skip, limit, page) ==
    LET ids == {c.id : c \in {x \in table : x.user_id = user.id}}
    IN IF skip = 0
       THEN [active |-> TRUE, user |-> user.id, limit |-> limit, next |-> limit,
             seen |-> page, stable |-> ids, done |-> Len(page) < limit]
       ELSE IF w.active /\ ~w.done /\ w.user = user.id /\ w.limit = limit /\ w.next = skip
       THEN [w EXCEPT !.next = skip + limit, !.seen = w.seen \o page,
                      !.stable = w.stable \cap ids, !.done = Len(page) < limit]
       ELSE w

\* ContactRepository.get_contacts: the statement has no ORDER BY, the storage
\* returns the user's rows in an order of its choosing
GetContacts(user, skip, limit) ==
    /\ \E order \in Orders({c \in contacts : c.user_id = user.id}) :
          LET page == Page(order, skip, limit)
          IN /\ last' = [op |-> "get_contacts", user |-> user, skip |-> skip,
                         limit |-> limit, result |-> page]
             /\ walk' = Walked(walk, contacts, user, skip, limit, page)
    /\ UNCHANGED <<users, rg, outbox, bearer, cache, redisUp, rs, contacts, contactSeq, now, mutAt, stale>>

\* ------------------------------------------- services.auth.get_current_user

\* User.model_validate(user).model_dump(): the fields of the User schema
ModelDump(u) ==
    [id |-> u.id, username |-> u.username, email |-> u.email, avatar |-> u.avatar,
     role |-> u.role, confirmed |-> u.confirmed]

\* json.dumps of the dumped user: the role goes out as its string value
JsonDumps(d) == [json |-> [d EXCEPT !.role = RoleValue(@)]]

\* json.loads without User(**...): the role stays a plain string
LoadUserRaw(text) == text.json

\* User(**json.loads(cached_user)): the role comes back as a UserRole
LoadUser(text) == [text.json EXCEPT !.role = UserRole(@)]

\* redis_client.get(key) at time t: the value, or None once `ex` has run out
RedisGet(c, key, t) ==
    IF c[key] # NoEntry /\ t < c[key].expires THEN c[key].value ELSE None

\* a cache write that appends to the value the key already holds
RedisSetAppend(c, key, value, t) ==
    [c EXCEPT ![key] = [value |-> IF c[key] = NoEntry THEN value
                                  ELSE [json |-> value.json, tail |-> c[key].value],
                        expires |-> t + CACHE_EX_SECONDS]]

\* redis_client.set(key, value, ex=3600) at time t
RedisSet(c, key, value, t) ==
    [c EXCEPT ![key] = [value |-> value, expires |-> t + CACHE_EX_SECONDS]]

\* get_current_user letting the RedisError of redis_client.set escape
FillStatusRaising(up) == IF up THEN 200 ELSE 500

\* the status get_current_user answers after redis_client.set: `except RedisError: pass`
FillStatus(up) == 200

\* get_current_user up to its first await: jwt.decode, then redis_client.get
GetCurrentUserStart(w, token) ==
    /\ rs[w] = Idle
    /\ IF JwtError(token, now)
       THEN /\ rs' = rs
            /\ last' = [op |-> "get_current_user", step |-> "start", worker |-> w,
                        token |-> token, sub |-> "", getErr |-> FALSE, setErr |-> FALSE,
                        clean |-> TRUE, status |-> 401, user |-> None]
       ELSE IF redisUp /\ RedisGet(cache, Sub(token), now) # None
       THEN /\ rs' = rs
            /\ last' = [op |-> "get_current_user", step |-> "hit", worker |-> w,
                        token |-> token, sub |-> Sub(token), getErr |-> FALSE, setErr |-> FALSE,
                        clean |-> <<"cache", Sub(token)>> \notin stale, status |-> 200,
                        user |-> LoadUser(RedisGet(cache, Sub(token), now))]
       ELSE /\ rs' = [rs EXCEPT ![w] = [pc |-> "miss", token |-> token, sub |-> Sub(token),
                                        getErr |-> ~redisUp]]
            /\ last' = [op |-> "get_current_user", step |-> "start", worker |-> w,
                        token |-> token, sub |-> Sub(token), getErr |-> ~redisUp, setErr |-> FALSE,
                        clean |-> TRUE, status |-> 0, user |-> None]
    /\ UNCHANGED <<walk, users, rg, outbox, bearer, cache, redisUp, contacts, contactSeq, now, mutAt, stale>>

\* get_current_user, second await: get_user_by_username
GetCurrentUserRead(w) ==
    /\ rs[w].pc = "miss"
    /\ LET user == GetUserByUsername(users, rs[w].sub)
       IN IF user = None
          THEN /\ rs' = [rs EXCEPT ![w] = Idle]
               /\ last' = [op |-> "get_current_user", step |-> "read", worker |-> w,
                           token |-> rs[w].token, sub |-> rs[w].sub, getErr |-> rs[w].getErr,
                           setErr |-> FALSE, clean |-> TRUE, status |-> 401, user |-> None]
          ELSE /\ rs' = [rs EXCEPT ![w] = [pc |-> "read", token |-> rs[w].token, sub |-> rs[w].sub,
                                           getErr |-> rs[w].getErr, user |-> user]]
               /\ last' = [op |-> "get_current_user", step |-> "read", worker |-> w,
                           token |-> rs[w].token, sub |-> rs[w].sub, getErr |-> rs[w].getErr,
                           setErr |-> FALSE, clean |-> TRUE, status |-> 0, user |-> None]
    /\ stale' = stale \ {<<"request", w>>}
    /\ UNCHANGED <<walk, users, rg, outbox, bearer, cache, redisUp, contacts, contactSeq, now, mutAt>>

\* get_current_user, third await: redis_client.set, then return user
GetCurrentUserFill(w) ==
    /\ rs[w].pc = "read"
    /\ cache' = IF redisUp
                THEN RedisSet(cache, rs[w].sub, JsonDumps(ModelDump(rs[w].user)), now)
                ELSE cache
    /\ stale' = IF redisUp
                THEN IF <<"request", w>> \in stale
                     THEN (stale \ {<<"request", w>>}) \cup {<<"cache", rs[w].sub>>}
                     ELSE stale \ {<<"cache", rs[w].sub>>}
                ELSE stale \ {<<"request", w>>}
    /\ last' = [op |-> "get_current_user", step |-> "fill", worker |-> w,
                token |-> rs[w].token, sub |-> rs[w].sub, getErr |-> rs[w].getErr,
                setErr |-> ~redisUp, clean |-> <<"request", w>> \notin stale,
                status |-> FillStatus(redisUp),
                user |-> IF FillStatus(redisUp) = 200 THEN rs[w].user ELSE None]
    /\ rs' = [rs EXCEPT ![w] = Idle]
    /\ UNCHANGED <<walk, users, rg, outbox, bearer, redisUp, contacts, contactSeq, now, mutAt>>

\* get_current_admin_user without the comparison of the role
RequireAdminLax(current_user) == [status |-> 200, user |-> current_user]

\* get_current_admin_user: `if current_user.role != UserRole.ADMIN: raise 403`
RequireAdmin(current_user) ==
    IF current_user.role # ROLE_ADMIN
    THEN [status |-> 403, user |-> None]
    ELSE [status |-> 200, user |-> current_user]

\* get_current_admin_user, run on the user get_current_user has just returned
GetCurrentAdminUser ==
    /\ last.op = "get_current_user"
    /\ last.status = 200
    /\ last' = [op |-> "get_current_admin_user", current_user |-> last.user,
                status |-> RequireAdmin(last.user).status,
                user |-> RequireAdmin(last.user).user]
    /\ UNCHANGED <<users, rg, outbox, bearer, cache, redisUp, rs, contacts, contactSeq, now, mutAt, stale, walk>>

\* UserRepository.update_avatar_url for a user of the directory
UpdateAvatarUrl(email, url) ==
    /\ GetUserByEmail(users, email) # None
    /\ users' = RepoUpdateAvatarUrl(users, email, url)
    /\ mutAt' = Touch(mutAt, users, users', now)
    /\ stale' = Taint(stale, users, users')
    /\ last' = [op |-> "update_avatar_url", email |-> email, url |-> url,
                result |-> GetUserByEmail(users', email)]
    /\ UNCHANGED <<walk, rg, outbox, bearer, cache, redisUp, rs, contacts, contactSeq, now>>

\* ------------------------------------------------------------ environment

\* the instants at which something happens
Instants == {h * CACHE_EX_SECONDS + l * Latency : h \in 0 .. MaxHours, l \in 0 .. 1}

\* time passes, no more than Latency while a request is between two awaits;
\* Redis drops the keys whose `ex` has run out
Tick(t) ==
    /\ t > now
    /\ (\E w \in Workers : rs[w] # Idle \/ rg[w] # Idle) => t <= now + Latency
    /\ now' = t
    /\ cache' = [k \in DOMAIN cache |-> IF RedisGet(cache, k, t) = None THEN NoEntry ELSE cache[k]]
    /\ stale' = stale \ {<<"cache", k>> : k \in {x \in DOMAIN cache : RedisGet(cache, x, t) = None}}
    /\ last' = [op |-> "tick"]
    /\ UNCHANGED <<walk, users, rg, outbox, bearer, redisUp, rs, contacts, contactSeq, mutAt>>

\* the Redis backend goes away or comes back
RedisFlip ==
    /\ redisUp' = ~redisUp
    /\ last' = [op |-> "redis"]
    /\ UNCHANGED <<walk, users, rg, outbox, bearer, cache, rs, contacts, contactSeq, now, mutAt, stale>>

\* ------------------------------------------------------------ specifications

Init ==
    /\ users = {}
    /\ rg = [w \in Workers |-> Idle]
    /\ outbox = {}
    /\ bearer = {}
    /\ cache = [n \in Usernames \cup Emails |-> NoEntry]
    /\ redisUp = TRUE
    /\ rs = [w \in Workers |-> Idle]
    /\ contacts = {}
    /\ contactSeq = 0
    /\ now = 0
    /\ mutAt = [n \in Usernames |-> Never]
    /\ stale = {}
    /\ walk = NoWalk
    /\ last = [op |-> "start"]

\* registration, confirmation, login and password reset
NextAuth ==
    \/ \E w \in Workers, body \in UserCreates : RegisterUserCheckEmail(w, body)
    \/ \E w \in Workers : RegisterUserCheckUsername(w)
    \/ \E w \in Workers, avatar \in Avatars : RegisterUserCreate(w, avatar)
    \/ \E username \in Usernames, password \in Passwords : LoginUser(username, password)
    \/ \E token \in Presentable : ConfirmedEmail(token)
    \/ \E email \in Emails : RequestEmail(email)
    \/ \E email \in Emails : SendResetPasswordToken(email)
    \/ \E token \in Presentable, p \in Passwords : ResetPassword(token, p)

SpecAuth == Init /\ [][NextAuth]_vars

\* contact ids a client may ask for: every id given out, and one never given
ContactIds == 1 .. (MaxContacts + 1)

\* two users sign up, then the contact repository serves them
NextContacts ==
    \/ \E body \in UserCreates : RegisterUserCheckEmail("w1", body)
    \/ RegisterUserCheckUsername("w1")
    \/ RegisterUserCreate("w1", NoAvatar)
    \/ \E id \in ContactIds, u \in users : GetContact(id, u)
    \/ \E body \in ContactCreates, u \in users : CreateContact(body, u)
    \/ \E id \in ContactIds, data \in ContactUpdates, u \in users : UpdateContact(id, data, u)
    \/ \E id \in ContactIds, u \in users : DeleteContact(id, u)

SpecContacts == Init /\ [][NextContacts]_vars

\* the filters a client may send for each field: none, a part of a name in
\* either case, and text with a LIKE wildcard in it
FirstNameFilters == {"", "ali", "LI", "l_c"}
LastNameFilters == {"", "s"}
EmailFilters == {"", "c.io", "B"}

\* the days on which the birthday query is run: windows that cross the year's
\* end, that end with a month, that lie inside one month, that cross February
Todays ==
    {<<2024, 12, 28>>, <<2024, 12, 20>>, <<2024, 12, 24>>, <<2025, 1, 1>>,
     <<2025, 1, 10>>, <<2024, 2, 25>>, <<2025, 12, 26>>}

\* users sign up and create contacts; the contact queries are run
NextQueries ==
    \/ \E body \in UserCreates : RegisterUserCheckEmail("w1", body)
    \/ RegisterUserCheckUsername("w1")
    \/ RegisterUserCreate("w1", NoAvatar)
    \/ \E body \in ContactCreates, u \in users : CreateContact(body, u)
    \/ \E u \in users, f \in FirstNameFilters, l \in LastNameFilters, e \in EmailFilters :
          SearchContacts(u, f, l, e)
    \/ \E u \in users, today \in Todays : GetContactsBirthdaySoon(u, today)

SpecQueries == Init /\ [][NextQueries]_vars

\* the page sizes and offsets a client asks for
Limits == {1, 2}
Skips == 0 .. MaxContacts

\* users sign up and create contacts while their lists are paged through
NextPaging ==
    \/ \E body \in UserCreates : RegisterUserCheckEmail("w1", body)
    \/ RegisterUserCheckUsername("w1")
    \/ RegisterUserCreate("w1", NoAvatar)
    \/ \E body \in ContactCreates, u \in users : CreateContact(body, u)
    \/ \E u \in users, skip \in Skips, limit \in Limits : GetContacts(u, skip, limit)

SpecPaging == Init /\ [][NextPaging]_vars

\* two users keep contacts; each of the three set-returning queries is run
\* for either of them
NextScope ==
    \/ \E body \in UserCreates : RegisterUserCheckEmail("w1", body)
    \/ RegisterUserCheckUsername("w1")
    \/ RegisterUserCreate("w1", NoAvatar)
    \/ \E body \in ContactCreates, u \in users : CreateContact(body, u)
    \/ \E u \in users, skip \in Skips, limit \in Limits : GetContacts(u, skip, limit)
    \/ \E u \in users, f \in FirstNameFilters : SearchContacts(u, f, "", "")
    \/ \E u \in users, today \in Todays : GetContactsBirthdaySoon(u, today)

SpecScope == Init /\ [][NextScope]_vars

\* the sign-up of the user whose bearer tokens are resolved
SignUps == {b \in UserCreates : b.email = "a@x.io"}

\* users sign up, confirm and log in; bearer tokens are resolved through the
\* cache while rows are written, time passes and Redis comes and goes
NextCache ==
    \/ now = 0 /\ \E body \in SignUps : RegisterUserCheckEmail("w1", body)
    \/ now = 0 /\ RegisterUserCheckUsername("w1")
    \/ now = 0 /\ RegisterUserCreate("w1", NoAvatar)
    \/ now = 0 /\ \E token \in Presentable : ConfirmedEmail(token)
    \/ \E username \in Usernames : LoginUser(username, "pw1")
    \/ \E email \in Emails : UpdateAvatarUrl(email, "gravatar.png")
    \/ \E w \in Workers, token \in Presentable : GetCurrentUserStart(w, token)
    \/ \E w \in Workers : GetCurrentUserRead(w)
    \/ \E w \in Workers : GetCurrentUserFill(w)
    \/ \E t \in Instants : Tick(t)
    \/ RedisFlip

SpecCache == Init /\ [][NextCache]_vars

\* users sign up and confirm; from the first login on the directory is left
\* alone while two workers resolve bearer tokens side by side, Redis comes
\* and goes and cache entries run out
NextRace ==
    \/ (now = 0 /\ bearer = {}) /\ \E body \in SignUps : RegisterUserCheckEmail("w1", body)
    \/ (now = 0 /\ bearer = {}) /\ RegisterUserCheckUsername("w1")
    \/ (now = 0 /\ bearer = {}) /\ RegisterUserCreate("w1", NoAvatar)
    \/ (now = 0 /\ bearer = {}) /\ \E token \in Presentable : ConfirmedEmail(token)
    \/ \E username \in Usernames : LoginUser(username, "pw1")
    \/ bearer # {} /\ \E w \in Workers, token \in Presentable : GetCurrentUserStart(w, token)
    \/ \E w \in Workers : GetCurrentUserRead(w)
    \/ \E w \in Workers : GetCurrentUserFill(w)
    \/ \E t \in Instants : Tick(t)
    \/ RedisFlip

SpecRace == Init /\ [][NextRace]_vars

\* users of both roles sign up, confirm and log in; their bearer tokens are
\* resolved, from the directory and from the cache, and the role is checked
NextAdmin ==
    \/ \E body \in UserCreates : RegisterUserCheckEmail("w1", body)
    \/ RegisterUserCheckUsername("w1")
    \/ RegisterUserCreate("w1", NoAvatar)
    \/ \E token \in Presentable : ConfirmedEmail(token)
    \/ \E username \in Usernames : LoginUser(username, "pw1")
    \/ \E token \in Presentable : GetCurrentUserStart("w1", token)
    \/ GetCurrentUserRead("w1")
    \/ GetCurrentUserFill("w1")
    \/ GetCurrentAdminUser

SpecAdmin == Init /\ [][NextAdmin]_vars

\* the instants at which a token is presented: its first second, the last
\* second of each of the two lifetimes and the second after it
TokenInstants ==
    {0, RESET_TOKEN_SECONDS, RESET_TOKEN_SECONDS + Latency,
     EMAIL_TOKEN_SECONDS, EMAIL_TOKEN_SECONDS + Latency}

\* the tokens create_reset_token made at the start, one for every e-mail
ResetTokens == {CreateResetToken(email, 0) : email \in Emails}

\* users sign up and ask for reset links at the start; then confirmation and
\* reset links are followed while the tokens age
NextReset ==
    \/ now = 0 /\ \E body \in UserCreates : RegisterUserCheckEmail("w1", body)
    \/ now = 0 /\ RegisterUserCheckUsername("w1")
    \/ now = 0 /\ RegisterUserCreate("w1", NoAvatar)
    \/ now = 0 /\ \E email \in Emails : SendResetPasswordToken(email)
    \/ \E token \in Presentable : ConfirmedEmail(token)
    \/ \E token \in Presentable \cup ResetTokens : ResetPasswordForm(token)
    \/ \E token \in Presentable \cup ResetTokens : ResetPassword(token, "pw2")
    \/ \E t \in TokenInstants : Tick(t)

SpecReset == Init /\ [][NextReset]_vars

\* every kind of token is handed out and every kind is presented to each of
\* the three verification paths
NextPurpose ==
    \/ \E body \in UserCreates : RegisterUserCheckEmail("w1", body)
    \/ RegisterUserCheckUsername("w1")
    \/ RegisterUserCreate("w1", NoAvatar)
    \/ \E email \in Emails : SendResetPasswordToken(email)
    \/ \E username \in Usernames : LoginUser(username, "pw1")
    \/ \E token \in Presentable \cup ResetTokens : ConfirmedEmail(token)
    \/ \E token \in Presentable \cup ResetTokens : ResetPasswordForm(token)
    \/ \E token \in Presentable \cup ResetTokens : ResetPassword(token, "pw1")
    \/ \E token \in Presentable \cup ResetTokens : GetCurrentUserStart("w1", token)
    \/ GetCurrentUserRead("w1")
    \/ GetCurrentUserFill("w1")

SpecPurpose == Init /\ [][NextPurpose]_vars

\* ------------------------------------------------------------ properties

\* C1: a login for a user whose confirmed flag is false answers 401 and hands
\* out no access token, whatever the password; no access token in circulation
\* names that user.
C1_UnconfirmedLoginRefused ==
    last.op = "login" =>
        LET u == GetUserByUsername(users, last.username)
        IN (u # None /\ ~u.confirmed) =>
              /\ last.status = 401
              /\ last.token = None
              /\ \A t \in bearer : Sub(t) # u.username

C1_Witness ==
    /\ last.op = "login"
    /\ LET u == GetUserByUsername(users, last.username)
       IN /\ u # None
          /\ ~u.confirmed
          /\ VerifyPassword(last.password, u.hashed_password)
          /\ last.status = 401
          /\ \E m \in outbox : m.template = "reset_password"

\* C2: a login of a confirmed user with a password that verifies against the
\* stored hash answers 200 with an access token that decodes, and whose
\* subject is that user's username.
C2_ConfirmedLoginSucceeds ==
    last.op = "login" =>
        LET u == GetUserByUsername(users, last.username)
        IN (u # None /\ u.confirmed /\ VerifyPassword(last.password, u.hashed_password)) =>
              /\ last.status = 200
              /\ last.token \in bearer
              /\ ~JwtError(last.token, now)
              /\ Sub(last.token) = u.username

C2_Witness ==
    /\ last.op = "login"
    /\ last.status = 200
    /\ last.username = "alice"
    /\ Sub(last.token) = "alice"

\* C5: a register call made when its e-mail or its username is already taken
\* answers 409 from a pre-check: it never reaches the insert, and no step of
\* it changes the Users table or enqueues a mail.
C5_DuplicateRegisterConflicts ==
    [][(last'.op = "register" /\ last'.dup) =>
          /\ users' = users
          /\ outbox' = outbox
          /\ last'.status \in {0, 409}
          /\ last'.user = None
          /\ rg'[last'.worker].pc \in {"idle", "emailChecked"}
          /\ rg'[last'.worker] = Idle => last'.status = 409]_vars

C5_Witness ==
    /\ last.op = "register"
    /\ last.dup
    /\ last.status = 409
    /\ \E u \in users : u.email = last.body.email /\ u.username # last.body.username

\* C6: a register call that passed both pre-checks and then loses the race at
\* the insert answers 409, and no two rows share a username or an e-mail.
C6_RacingRegisterConflicts ==
    /\ (last.op = "register" /\ last.raced) => last.status = 409
    /\ \A u, v \in users : (u.username = v.username \/ u.email = v.email) => u = v

\* C3: for every contact id and every two distinct users A and B, when the
\* contact with that id belongs to B the lookup for A gives what it gives on a
\* table without that row, which is None; a get_contact just served under the
\* wrong owner returned None.
C3_WrongOwnerLooksAbsent ==
    /\ \A c \in contacts : \A a \in users :
          c.user_id # a.id =>
             /\ GetContactRow(contacts, c.id, a) = GetContactRow(contacts \ {c}, c.id, a)
             /\ GetContactRow(contacts, c.id, a) = None
    /\ (last.op = "get_contact" /\ \A c \in contacts : c.id = last.id => c.user_id # last.user.id)
          => last.result = None

C3_Witness ==
    /\ last.op = "get_contact"
    /\ last.result = None
    /\ \E c \in contacts : c.id = last.id /\ c.user_id # last.user.id

ContactOps == {"get_contact", "create_contact", "update_contact", "delete_contact"}

\* C4: update_contact and delete_contact aimed at another user's contact
\* return None and leave the Contacts table as it was; no contact operation
\* of one user adds, removes or changes a row owned by another user.
C4_OtherOwnersRowsUntouched ==
    [][last'.op \in ContactOps =>
          /\ (/\ last'.op \in {"update_contact", "delete_contact"}
              /\ \E c \in contacts : c.id = last'.id /\ c.user_id # last'.user.id)
                => (last'.result = None /\ contacts' = contacts)
          /\ {c \in contacts : c.user_id # last'.user.id}
                = {c \in contacts' : c.user_id # last'.user.id}]_vars

C4_Witness ==
    /\ last.op \in {"update_contact", "delete_contact"}
    /\ last.result = None
    /\ \E c \in contacts : c.id = last.id /\ c.user_id # last.user.id

\* C7: while Redis is down, no step of get_current_user fails with anything
\* but 401 or touches the cache: a token that decodes goes on to the directory
\* as on a miss, a subject the directory holds is read from it, and the
\* request answers 200 with the row it read although the cache write failed.
C7_CacheDownFallsThrough ==
    [][(last'.op = "get_current_user" /\ ~redisUp) =>
          LET w == last'.worker
          IN /\ last'.status \in {0, 200, 401}
             /\ cache' = cache
             /\ (rs[w] = Idle /\ ~JwtError(last'.token, now))
                   => (rs'[w].pc = "miss" /\ rs'[w].getErr)
             /\ (rs[w].pc = "miss" /\ GetUserByUsername(users, rs[w].sub) # None)
                   => (rs'[w].pc = "read" /\ rs'[w].user = GetUserByUsername(users, rs[w].sub))
             /\ rs[w].pc = "read"
                   => (last'.status = 200 /\ last'.user = rs[w].user /\ last'.setErr)]_vars

C7_Witness ==
    /\ last.op = "get_current_user"
    /\ last.step = "fill"
    /\ last.getErr
    /\ last.setErr
    /\ last.status = 200
    /\ last.user = GetUserByUsername(users, last.sub)

\* C8: with no write to the user's row in between, a get_current_user that missed
\* the cache returns the user's row as the directory holds it and leaves its
\* serialization in the cache, and a get_current_user served from the cache
\* returns a user whose schema fields equal those of that row.
C8_WarmCacheMatchesDirectory ==
    last.op = "get_current_user" =>
        LET u == GetUserByUsername(users, last.sub)
        IN /\ (last.step = "fill" /\ last.clean) =>
                 /\ last.user = u
                 /\ ~last.setErr => /\ RedisGet(cache, last.sub, now) = JsonDumps(ModelDump(u))
                                    /\ <<"cache", last.sub>> \notin stale
           /\ (last.step = "hit" /\ last.clean) =>
                 /\ u # None
                 /\ last.user = ModelDump(u)

C8_Witness ==
    /\ last.op = "get_current_user"
    /\ last.step = "hit"
    /\ last.clean
    /\ last.user = ModelDump(GetUserByUsername(users, last.sub))

\* a token that is malformed, wrongly signed or expired at time t
Rejectable(token, t) ==
    \/ token = Malformed
    \/ token.key # JWT_SECRET
    \/ token.payload.exp < t

\* C9: get_current_user answers 401 for a token that is malformed, wrongly
\* signed or expired, and for a token that decodes but whose subject is not in
\* the cache and not in the directory; a 401 returns no user and writes
\* nothing to the cache.
C9_BadTokenUnauthorized ==
    [][last'.op = "get_current_user" =>
          LET w == last'.worker
          IN /\ (rs[w] = Idle /\ Rejectable(last'.token, now))
                   => (last'.status = 401 /\ rs' = rs)
             /\ (rs[w].pc = "miss" /\ GetUserByUsername(users, rs[w].sub) = None)
                   => (last'.status = 401 /\ rs'[w] = Idle)
             /\ last'.status = 401 => (cache' = cache /\ last'.user = None)]_vars

C9_Witness ==
    /\ last.op = "get_current_user"
    /\ last.status = 401
    /\ last.token \in bearer
    /\ last.token.payload.exp < now

\* C10: once CACHE_EX_SECONDS have passed since a user's row was last written,
\* a get_current_user served from the cache returns the row as written.
C10_StaleAtMostCacheLifetime ==
    (/\ last.op = "get_current_user"
     /\ last.step = "hit"
     /\ mutAt[last.sub] # Never
     /\ now >= mutAt[last.sub] + CACHE_EX_SECONDS)
        => last.user = ModelDump(GetUserByUsername(users, last.sub))

\* C11 (as stated): for every e-mail, decode_reset_token of the token
\* create_reset_token made for it returns that e-mail while less than the
\* reset lifetime (1 hour) has passed since it was made; from the moment the
\* lifetime has passed the decode fails, the reset endpoints answer 400 and no
\* password changes.
C11_ResetTokenRoundTrip ==
    [][last'.op \in {"reset_password_form", "reset_password"} =>
        \A email \in Emails, t \in TokenInstants :
            (t <= now /\ last'.token = CreateResetToken(email, t)) =>
                IF now - t < RESET_TOKEN_SECONDS
                THEN /\ last'.status # 400
                     /\ (last'.op = "reset_password_form" => last'.email = email)
                ELSE /\ last'.status = 400
                     /\ users' = users]_vars

\* C11 (amended): the token still decodes to its e-mail when exactly the
\* reset lifetime has passed (jwt.decode refuses a token only when its exp
\* lies before the current second); once more than the lifetime has passed
\* the decode fails, the reset endpoints answer 400 and no password changes.
C11_ResetTokenRoundTripInclusive ==
    [][last'.op \in {"reset_password_form", "reset_password"} =>
        \A email \in Emails, t \in TokenInstants :
            (t <= now /\ last'.token = CreateResetToken(email, t)) =>
                IF now - t <= RESET_TOKEN_SECONDS
                THEN /\ last'.status # 400
                     /\ (last'.op = "reset_password_form" => last'.email = email)
                ELSE /\ last'.status = 400
                     /\ users' = users]_vars

\* a reset token older than its lifetime was posted for a user of the directory
C11_Witness ==
    /\ last.op = "reset_password"
    /\ last.status = 400
    /\ \E email \in Emails, t \in TokenInstants :
          /\ last.token = CreateResetToken(email, t)
          /\ now - t > RESET_TOKEN_SECONDS
          /\ GetUserByEmail(users, email) # None

\* C12: the token the send-reset-password-token flow hands to the mailer is
\* refused (400) by POST /auth/reset-password once more than the reset
\* lifetime (1 hour) has passed since it was issued.
C12_MailedResetTokenExpires ==
    last.op = "reset_password" =>
        \A m \in outbox :
            (/\ m.template = "reset_password"
             /\ m.token = last.token
             /\ now - m.token.payload.iat > RESET_TOKEN_SECONDS) => last.status = 400

\* C13: the confirmed flag is one-way.  A row enters the directory with the
\* flag false; the flag of a row becomes true only in a confirmed_email step
\* answered 200 whose token is valid and names that row's e-mail; a row never
\* leaves the directory and its flag never goes back to false; and
\* confirmed_email with a valid token of an already confirmed user answers 200
\* and changes nothing.
C13_ConfirmedOneWay ==
    [][/\ \A v \in users' : GetUserByEmail(users, v.email) = None => ~v.confirmed
       /\ \A u \in users :
             LET v == GetUserByEmail(users', u.email)
             IN /\ v # None
                /\ u.confirmed => v.confirmed
                /\ (~u.confirmed /\ v.confirmed) =>
                      /\ last'.op = "confirmed_email"
                      /\ last'.status = 200
                      /\ ~Rejectable(last'.token, now)
                      /\ Sub(last'.token) = u.email
       /\ (/\ last'.op = "confirmed_email"
           /\ ~Rejectable(last'.token, now)
           /\ \E u \in users : u.email = Sub(last'.token) /\ u.confirmed) =>
             /\ last'.status = 200
             /\ users' = users]_vars

\* a confirmed user followed a confirmation link again, next to a user who
\* has not confirmed
C13_Witness ==
    /\ last.op = "confirmed_email"
    /\ last.status = 200
    /\ \E u \in users : /\ u.email = Sub(last.token)
                         /\ u.confirmed
                         /\ mutAt[u.username] < now
    /\ \E u \in users : ~u.confirmed

\* C14 (as stated): confirmed_email with a token that is malformed, wrongly
\* signed or expired answers 400 and changes no user row.
C14_BadConfirmTokenIs400 ==
    [][(last'.op = "confirmed_email" /\ Rejectable(last'.token, now)) =>
          (last'.status = 400 /\ users' = users)]_vars

\* C14 (amended): confirmed_email with a token that is malformed, wrongly
\* signed or expired answers 422, the same for the three kinds, and changes
\* no user row.
C14_BadConfirmTokenIs422 ==
    [][(last'.op = "confirmed_email" /\ Rejectable(last'.token, now)) =>
          (last'.status = 422 /\ users' = users)]_vars

\* the confirmation link of a user who has not confirmed was followed after
\* its token expired
C14_Witness ==
    /\ last.op = "confirmed_email"
    /\ last.token # Malformed
    /\ last.token.key = JWT_SECRET
    /\ last.token.payload.exp < now
    /\ \E u \in users : u.email = Sub(last.token) /\ ~u.confirmed

\* x occurs in s as a run of consecutive characters, case ignored
Substring(x, s) ==
    \E i \in 0 .. (Len(s) - Len(x)) : \A j \in 1 .. Len(x) : Lower(s[i + j]) = Lower(x[j])

\* C15: search_contacts returns exactly the contacts of the user in which
\* every filter that was given (non-empty) occurs, case ignored, as a substring
\* of its field; with no filter given these are all the user's contacts, and
\* when nothing matches the result is empty.
C15_SearchIsSubstringMatch ==
    last.op = "search_contacts" =>
        last.result =
            {c \in contacts :
                /\ c.user_id = last.user.id
                /\ (last.first_name # "" => Substring(Text(last.first_name), Text(c.first_name)))
                /\ (last.last_name # "" => Substring(Text(last.last_name), Text(c.last_name)))
                /\ (last.email # "" => Substring(Text(last.email), Text(c.email)))}

\* C16: when the seven-day window ends in the month after today's (today =
\* 2024-12-28, the window ends on 01-04), get_contacts_birthday_soon returns
\* every contact of the user whose birthday falls in that following month on or
\* before the window's last day, whatever the year of birth.
C16_WindowAcrossMonthEnd ==
    last.op = "get_contacts_birthday_soon" =>
        LET end == AddDays(last.today, BIRTHDAY_DAYS)
        IN end[2] # last.today[2] =>
              \A c \in contacts :
                  (/\ c.user_id = last.user.id
                   /\ c.birthday[2] = end[2]
                   /\ c.birthday[3] <= end[3]) => c \in last.result

\* on 2024-12-28 the query returned a contact born on a 2 January
C16_Witness ==
    /\ last.op = "get_contacts_birthday_soon"
    /\ last.today = <<2024, 12, 28>>
    /\ \E c \in last.result : c.birthday[2] = 1 /\ c.birthday[3] = 2 /\ c.birthday[1] < 2024

\* the month and day of a date lie in [today, today + 7 days]
InWindow(birthday, today) ==
    \E k \in 0 .. BIRTHDAY_DAYS :
        LET d == AddDays(today, k) IN birthday[2] = d[2] /\ birthday[3] = d[3]

\* C17: for every today, get_contacts_birthday_soon returns a contact of the
\* user if and only if the month and day of its birthday, the year ignored,
\* fall within [today, today + 7 days].
C17_ExactlyTheWindow ==
    last.op = "get_contacts_birthday_soon" =>
        last.result = {c \in contacts : c.user_id = last.user.id
                                          /\ InWindow(c.birthday, last.today)}

\* C18: an update_contact that returns a contact has overwritten exactly the
\* fields present in the payload of the row with that id owned by the caller;
\* the row's other fields, its id and its user_id keep their values, and no
\* other row of the table changes.
C18_UpdateOverwritesOnlyGivenFields ==
    [][(last'.op = "update_contact" /\ last'.result # None) =>
          \E old \in contacts :
              /\ old.id = last'.id
              /\ old.user_id = last'.user.id
              /\ \A f \in DOMAIN old :
                    last'.result[f] = IF f \in DOMAIN last'.data THEN last'.data[f] ELSE old[f]
              /\ last'.result.id = old.id
              /\ last'.result.user_id = old.user_id
              /\ contacts' = (contacts \ {old}) \cup {last'.result}]_vars

\* one field of a contact was updated while the table held another contact
C18_Witness ==
    /\ last.op = "update_contact"
    /\ last.result # None
    /\ DOMAIN last.data = {"first_name"}
    /\ last.result \in contacts
    /\ last.result.first_name = last.data.first_name
    /\ \E c \in contacts : c.id # last.id

\* C19: a create_contact whose e-mail another stored contact already has, and
\* an update_contact of a row of the caller that sets such an e-mail, hit the
\* table's constraint: the operation returns None and the stored contacts are
\* exactly as before.
C19_ConstraintViolationRollsBack ==
    [][/\ (/\ last'.op = "create_contact"
           /\ \E c \in contacts : c.email = last'.data.email) =>
             (last'.result = None /\ contacts' = contacts)
       /\ (/\ last'.op = "update_contact"
           /\ "email" \in DOMAIN last'.data
           /\ \E c \in contacts : c.id = last'.id /\ c.user_id = last'.user.id
           /\ \E c \in contacts : c.id # last'.id /\ c.email = last'.data.email) =>
             (last'.result = None /\ contacts' = contacts)]_vars

\* an update gave a contact of the caller the e-mail of another stored contact
C19_Witness ==
    /\ last.op = "update_contact"
    /\ last.result = None
    /\ "email" \in DOMAIN last.data
    /\ \E c \in contacts : c.id = last.id /\ c.user_id = last.user.id
                             /\ c.email # last.data.email
    /\ \E c \in contacts : c.id # last.id /\ c.email = last.data.email

\* C20: update_password for an e-mail that no user has fails with
\* NoResultFound and changes no user row, and POST /auth/reset-password with a
\* valid token for such an e-mail does not answer with a success status; for
\* the e-mail of a user it changes the hashed_password of that user and
\* nothing else.
C20_UpdatePasswordFrame ==
    [][(last'.op = "reset_password" /\ ~Rejectable(last'.token, now)) =>
          IF \A u \in users : u.email # Sub(last'.token)
          THEN /\ last'.error = "NoResultFound"
               /\ last'.status \notin 200 .. 299
               /\ users' = users
          ELSE /\ Cardinality(users') = Cardinality(users)
               /\ \A u \in users :
                     \E v \in users' :
                        /\ \A f \in DOMAIN u \ {"hashed_password"} : v[f] = u[f]
                        /\ v.hashed_password =
                              IF u.email = Sub(last'.token)
                              THEN GetPasswordHash(last'.new_password)
                              ELSE u.hashed_password]_vars

\* a valid reset token for an e-mail nobody has was posted while the
\* directory held a user
C20_Witness ==
    /\ last.op = "reset_password"
    /\ last.error = "NoResultFound"
    /\ last.token.key = JWT_SECRET
    /\ users # {}
    /\ \A u \in users : u.email # Sub(last.token)

\* C21: for an e-mail that no user has, request_email and
\* send_reset_password_token both answer 404, hand no mail to the mailer and
\* change no row; neither ends in an internal error.
C21_UnknownEmailIs404 ==
    [][(/\ last'.op \in {"request_email", "send_reset_password_token"}
        /\ \A u \in users : u.email # last'.email) =>
          /\ last'.status = 404
          /\ outbox' = outbox
          /\ users' = users]_vars

\* C22: a login whose username no user has, and a login whose password does
\* not verify against the stored hash, both answer 401 with one and the same
\* message and hand out no token.
C22_FailedLoginTellsNothing ==
    [][(/\ last'.op = "login"
        /\ \A u \in users : u.username = last'.username =>
                                u.hashed_password # GetPasswordHash(last'.password)) =>
          /\ last'.status = 401
          /\ last'.detail = "bad credentials"
          /\ last'.token = None
          /\ bearer' = bearer]_vars

\* a login named a user nobody is, with the password of a confirmed user
C22_Witness ==
    /\ last.op = "login"
    /\ last.status = 401
    /\ \A u \in users : u.username # last.username
    /\ \E u \in users : u.confirmed /\ u.hashed_password = GetPasswordHash(last.password)

\* C23: when a client has paged through get_contacts with offsets 0, limit,
\* 2*limit, ... up to a page shorter than limit, every contact of the user
\* that existed during the whole traversal is on the pages exactly once, also
\* when the user created contacts between the calls.
C23_PagingSeesEachRowOnce ==
    (walk.active /\ walk.done) =>
        \A id \in walk.stable :
            Cardinality({i \in 1 .. Len(walk.seen) : walk.seen[i].id = id}) = 1

\* C24: get_current_admin_user returns the user get_current_user resolved,
\* unchanged, if and only if that user's role is ADMIN, and answers 403
\* otherwise; it changes neither the directory nor the cache nor anything else.
C24_AdminGate ==
    [][last'.op = "get_current_admin_user" =>
          /\ IF last.user.role = ROLE_ADMIN
             THEN last'.status = 200 /\ last'.user = last.user
             ELSE last'.status = 403 /\ last'.user = None
          /\ users' = users
          /\ cache' = cache
          /\ bearer' = bearer
          /\ contacts' = contacts
          /\ outbox' = outbox]_vars

\* a confirmed user who is no admin was resolved and turned away
C24_Witness ==
    /\ last.op = "get_current_admin_user"
    /\ last.status = 403
    /\ last.current_user.role = ROLE_USER
    /\ \E u \in users : u.username = last.current_user.username /\ u.confirmed

\* C25: delete_contact of a contact the caller owns removes exactly that row
\* and returns it as it was; an id that is not in the table never comes back,
\* so a later get_contact or delete_contact of it returns None and changes
\* nothing; every other stored contact stays as it is.
C25_DeleteRemovesExactlyOne ==
    [][/\ last'.op = "delete_contact" =>
             \A c \in contacts :
                 (c.id = last'.id /\ c.user_id = last'.user.id) =>
                     (last'.result = c /\ contacts' = contacts \ {c})
       /\ (/\ last'.op \in {"get_contact", "delete_contact"}
           /\ \A c \in contacts : ~(c.id = last'.id /\ c.user_id = last'.user.id)) =>
             (last'.result = None /\ contacts' = contacts)
       /\ \A id \in 1 .. contactSeq :
             (\A c \in contacts : c.id # id) => (\A c \in contacts' : c.id # id)]_vars

\* a contact was deleted and returned while the table held another contact
C25_Witness ==
    /\ last.op = "delete_contact"
    /\ last.result # None
    /\ last.result.id = last.id
    /\ \A c \in contacts : c.id # last.id
    /\ contacts # {}

\* the fields of a user record that the User schema shows
Public(u) ==
    [f \in {"id", "username", "email", "avatar", "role", "confirmed"} |-> u[f]]

\* C26: while the directory is not written, every get_current_user that
\* succeeds, however the calls of the two workers interleave, returns the
\* record the directory holds for the subject; and once no call is in flight
\* and Redis is up, a cache entry of a subject is the serialization of that
\* record, whichever of the racing writes came last.
C26_RacingResolversAgree ==
    /\ (last.op = "get_current_user" /\ last.status = 200) =>
          /\ GetUserByUsername(users, last.sub) # None
          /\ Public(last.user) = Public(GetUserByUsername(users, last.sub))
    /\ ((\A w \in Workers : rs[w] = Idle) /\ redisUp) =>
          \A sub \in Usernames :
              cache[sub] # NoEntry =>
                  cache[sub].value = JsonDumps(ModelDump(GetUserByUsername(users, sub)))

\* both workers missed the cache for one subject; one has written its entry
\* and returned, the other is about to write
C26_Witness ==
    /\ last.op = "get_current_user"
    /\ last.step = "fill"
    /\ ~last.setErr
    /\ cache[last.sub] # NoEntry
    /\ \E w \in Workers : /\ w # last.worker
                           /\ rs[w].pc = "read"
                           /\ rs[w].sub = last.sub

\* the rows of a query result, a page of get_contacts being a sequence
Returned(l) ==
    IF l.op = "get_contacts" THEN {l.result[i] : i \in 1 .. Len(l.result)} ELSE l.result

\* C27: every contact that get_contacts, search_contacts or
\* get_contacts_birthday_soon returns to a user is owned by that user,
\* whatever the filters, the offset and the limit.
C27_QueriesAreOwnerScoped ==
    last.op \in {"get_contacts", "search_contacts", "get_contacts_birthday_soon"} =>
        \A c \in Returned(last) : c.user_id = last.user.id

\* a search with no filter returned the caller's contact while the table
\* held a contact of another user
C27_Witness ==
    /\ last.op = "search_contacts"
    /\ last.first_name = ""
    /\ last.result # {}
    /\ \E c \in contacts : c.user_id # last.user.id

\* what a token was issued for: confirmation mails, logins, and reset tokens
\* (the ones create_reset_token makes and the ones the reset mail carries)
IssuedForEmail(t) == \E m \in outbox : m.template = "verify_email" /\ m.token = t
IssuedForAccess(t) == t \in bearer
IssuedForReset(t) ==
    t \in ResetTokens \/ \E m \in outbox : m.template = "reset_password" /\ m.token = t

\* C28: a token succeeds only on the verification path of the purpose it was
\* issued for.  A token issued only for e-mail confirmation does not succeed
\* on the password-reset endpoints nor in get_current_user; a token issued
\* only as access token does not succeed in confirmed_email nor on the
\* password-reset endpoints; a token issued only for password reset does not
\* succeed in confirmed_email nor in get_current_user.
C28_TokensKeepTheirPurpose ==
    /\ (/\ last.op \in {"reset_password_form", "reset_password"}
        /\ IssuedForEmail(last.token) \/ IssuedForAccess(last.token)
        /\ ~IssuedForReset(last.token)) => last.status # 200
    /\ (/\ last.op = "confirmed_email"
        /\ IssuedForAccess(last.token) \/ IssuedForReset(last.token)
        /\ ~IssuedForEmail(last.token)) => last.status # 200
    /\ (/\ last.op = "get_current_user"
        /\ IssuedForEmail(last.token) \/ IssuedForReset(last.token)
        /\ ~IssuedForAccess(last.token)) => last.status # 200

\* C29: a login that directly follows a successful reset_password for the
\* e-mail of a confirmed user answers 200 when it is made with that user's
\* username and the new password, and 401 when it is made with any other
\* password, the previous one included; and the reset_password step leaves the
\* row of every other user, which is all that a login reads, as it was.
C29_ResetThenLogin ==
    [][/\ (/\ last.op = "reset_password" /\ last.status = 200
           /\ last'.op = "login"
           /\ \E u \in users : /\ u.username = last'.username
                                /\ u.email = Sub(last.token)
                                /\ u.confirmed)
          => /\ last'.password = last.new_password => last'.status = 200
             /\ last'.password # last.new_password => last'.status = 401
       /\ (last'.op = "reset_password" /\ last'.status = 200)
          => /\ \A v \in users : v.email # Sub(last'.token) => v \in users'
             /\ \A v \in users' : v.email # Sub(last'.token) => v \in users]_vars

\* alice signed up as a@x.io with "pw1", is confirmed, and logs in with "pw2"
\* while a second user exists
C29_Witness ==
    /\ last.op = "login" /\ last.status = 200
    /\ last.username = "alice" /\ last.password = "pw2"
    /\ \E u \in users : u.username = "alice" /\ u.email = "a@x.io"
    /\ \E v \in users : v.username # "alice"

====
